---- MODULE Spec2Model ----
(***************************************************************************)
(* harmonic_response_tutorial.py: a linear script that drives the SimScale *)
(* API (project, storage, geometry import, simulation, mesh, run) with     *)
(* three poll loops.  The remote service is the environment: each call     *)
(* either returns a response drawn from a small set or raises.             *)
(***************************************************************************)
EXTENDS Integers, Sequences, FiniteSets, TLC

VARIABLES pc, api_key, exit_code, trace,
          project_id, storage, geometry_import, geometry_id, bodies, body_name,
          simulation_id, mesh_op, sim, run

progvars == <<project_id, storage, geometry_import, geometry_id, bodies, body_name,
              simulation_id, mesh_op, sim, run>>

vars == <<pc, api_key, exit_code, trace, project_id, storage, geometry_import,
          geometry_id, bodies, body_name, simulation_id, mesh_op, sim, run>>

\* Most non-terminal status responses the service gives for one job.
MaxPolls == 2

\* time.sleep arguments of the three loops.
ImportPollSeconds == 5

MeshPollSeconds == 30

RunPollSeconds == 60

None == "None"

----------------------------------------------------------------------------
\* The environment: what os.getenv and the service can answer.

ApiKeyValues == {None, "", "key"}

Statuses == {"RUNNING", "FINISHED", "FAILED"}

\* run.progress, a fraction in 0..1 written <<numerator, denominator>>.
Progresses == {<<1, 8>>, <<3, 8>>, <<1, 1>>}

\* .embedded of the geometry mappings response, names only; limit=1 was asked.
EmbeddedValues == {<< >>, <<"solid_a">>}

ProjectResponse == [project_id |-> "proj-1"]

StorageResponse == [storage_id |-> "stor-1", url |-> "https://storage/stor-1"]

GeometryImportResponse(s) ==
    [geometry_import_id |-> "gimp-1", status |-> s,
     geometry_id |-> IF s = "FINISHED" THEN "geom-1" ELSE None]

SimulationResponse == [simulation_id |-> "sim-1"]

MeshOperationResponse(s) ==
    [mesh_operation_id |-> "mop-1", status |-> s,
     mesh_id |-> IF s = "FINISHED" THEN "mesh-1" ELSE None]

GetSimulationResponse ==
    [simulation_id |-> "sim-1", geometry_id |-> geometry_id, mesh_id |-> None]

RunResponse(s, p) == [run_id |-> "run-1", status |-> s, progress |-> p]

\* Events of the trace: calls (returned or raised), sleeps and prints.
CallOk(op, args, res) ==
    [kind |-> "call", op |-> op, args |-> args, ok |-> TRUE, res |-> res]

CallRaised(op, args) ==
    [kind |-> "call", op |-> op, args |-> args, ok |-> FALSE, res |-> [none |-> None]]

\* open() of the fixture file raising: an exception, but no request.
OpenRaised(path) ==
    [kind |-> "local", op |-> "open", args |-> <<path>>, ok |-> FALSE, res |-> [none |-> None]]

SleepEv(job, secs) == [kind |-> "sleep", op |-> job, secs |-> secs]

PrintEv(text) == [kind |-> "print", op |-> "print", text |-> text]

\* Status responses of a job so far that were not FINISHED or FAILED.
NonTerminalSeen(ops) ==
    Cardinality({i \in DOMAIN trace :
        /\ trace[i].kind = "call"
        /\ trace[i].op \in ops
        /\ trace[i].ok
        /\ trace[i].res.status \notin {"FINISHED", "FAILED"}})

\* The statuses the service may report next for a job.
NextStatuses(ops) ==
    IF NonTerminalSeen(ops) < MaxPolls THEN Statuses ELSE {"FINISHED", "FAILED"}

----------------------------------------------------------------------------
\* Pure pieces of the script.

HasApiKeyAlways(k) == TRUE

\* line 11: `if not api_key`
HasApiKey(k) == k # None /\ k # ""

IsTerminalOnlyFinished(status) == status = "FINISHED"

IsTerminalAnyStatus(status) == TRUE

\* lines 60, 191, 211: `status in ("FINISHED", "FAILED")`
IsTerminal(status) == status \in {"FINISHED", "FAILED"}

BodyNameAlwaysDefault(b) == "region1"

\* line 72: `bodies[0].name if bodies else "region1"`
BodyName(b) == IF Len(b) > 0 THEN b[1] ELSE "region1"

SetMeshIdDropped(s, m) == s

\* line 197: `sim.mesh_id = mesh_op.mesh_id`
SetMeshId(s, m) == [s EXCEPT !.mesh_id = m.mesh_id]

\* round(num / den) to the nearest integer, ties to the even one.
RoundHalfEven(num, den) ==
    LET q == num \div den
        r == num % den
    IN  IF 2 * r > den THEN q + 1
        ELSE IF 2 * r < den THEN q
        ELSE IF q % 2 = 0 THEN q ELSE q + 1

PercentUnscaled(p) == RoundHalfEven(p[1], p[2])

\* line 210: format spec `.0%`: the value times 100, no decimals.
Percent(p) == RoundHalfEven(100 * p[1], p[2])

\* line 210: the text of the run-status message.
StatusMessage(r) ==
    <<"Status: ", r.status, " - Progress: ", ToString(Percent(r.progress)), "%">>

ErrorMessage == <<"ERROR: Please set SIMSCALE_API_KEY environment variable">>

CompleteMessage == <<"\n", "Simulation complete!">>

ResultUrlMessage(p) ==
    <<"View results at: https://www.simscale.com/workbench/project/", p>>

----------------------------------------------------------------------------
Unset == None

Init ==
    /\ pc = "start"
    /\ api_key \in ApiKeyValues
    /\ exit_code = None
    /\ trace = << >>
    /\ project_id = Unset
    /\ storage = [storage_id |-> Unset, url |-> Unset]
    /\ geometry_import = [geometry_import_id |-> Unset, status |-> Unset, geometry_id |-> Unset]
    /\ geometry_id = Unset
    /\ bodies = << >>
    /\ body_name = Unset
    /\ simulation_id = Unset
    /\ mesh_op = [mesh_operation_id |-> Unset, status |-> Unset, mesh_id |-> Unset]
    /\ sim = [simulation_id |-> Unset, geometry_id |-> Unset, mesh_id |-> Unset]
    /\ run = [run_id |-> Unset, status |-> Unset, progress |-> <<0, 1>>]

CrashAndRetry(evs) ==
    /\ trace' = trace \o evs
    /\ UNCHANGED <<pc, exit_code, api_key, progvars>>

\* An exception nobody catches: the traceback ends the process.
Crash(evs) ==
    /\ pc' = "crashed"
    /\ exit_code' = "1"
    /\ trace' = trace \o evs
    /\ UNCHANGED <<api_key, progvars>>

\* lines 10-26
Start ==
    /\ pc = "start"
    /\ IF HasApiKey(api_key)
         THEN /\ pc' = "create_project"
              /\ UNCHANGED <<exit_code, trace>>
         ELSE /\ pc' = "exited"
              /\ exit_code' = "1"
              /\ trace' = Append(trace, PrintEv(ErrorMessage))
    /\ UNCHANGED <<api_key, progvars>>

\* lines 28-34
CreateProject ==
    /\ pc = "create_project"
    /\ LET p == PrintEv(<<"Creating project...">>)
       IN  \/ /\ project_id' = ProjectResponse.project_id
              /\ trace' = trace \o <<p, CallOk("create_project", << >>, ProjectResponse)>>
              /\ pc' = "create_storage"
              /\ UNCHANGED <<api_key, exit_code, storage, geometry_import, geometry_id,
                             bodies, body_name, simulation_id, mesh_op, sim, run>>
           \/ Crash(<<p, CallRaised("create_project", << >>)>>)

\* lines 37-38
CreateStorage ==
    /\ pc = "create_storage"
    /\ LET p == PrintEv(<<"Uploading geometry...">>)
       IN  \/ /\ storage' = StorageResponse
              /\ trace' = trace \o <<p, CallOk("create_storage", << >>, StorageResponse)>>
              /\ pc' = "upload"
              /\ UNCHANGED <<api_key, exit_code, project_id, geometry_import, geometry_id,
                             bodies, body_name, simulation_id, mesh_op, sim, run>>
           \/ Crash(<<p, CallRaised("create_storage", << >>)>>)

\* lines 39-44: open() may raise before the PUT is issued
Upload ==
    /\ pc = "upload"
    /\ \/ /\ trace' = Append(trace, CallOk("PUT", <<storage.url>>, [none |-> None]))
          /\ pc' = "import_geometry"
          /\ UNCHANGED <<api_key, exit_code, progvars>>
       \/ Crash(<<OpenRaised("./fixtures/bracket-1.step")>>)
       \/ Crash(<<CallRaised("PUT", <<storage.url>>)>>)

ImportLoopEntrySleepFirst == "import_sleep"

\* line 60: the while condition is tested before the first sleep
ImportLoopEntry == "import_check"

\* lines 47-59
ImportGeometry ==
    /\ pc = "import_geometry"
    /\ LET args == <<project_id, storage.storage_id>>
       IN  \/ \E s \in NextStatuses({"import_geometry", "get_geometry_import"}) :
                /\ geometry_import' = GeometryImportResponse(s)
                /\ trace' = trace \o <<CallOk("import_geometry", args, GeometryImportResponse(s)),
                                       PrintEv(<<"Importing geometry...">>)>>
                /\ pc' = ImportLoopEntry
                /\ UNCHANGED <<api_key, exit_code, project_id, storage, geometry_id,
                               bodies, body_name, simulation_id, mesh_op, sim, run>>
           \/ Crash(<<CallRaised("import_geometry", args)>>)

\* line 60
ImportCheck ==
    /\ pc = "import_check"
    /\ pc' = IF IsTerminal(geometry_import.status) THEN "get_geometry_mappings"
                                                   ELSE "import_sleep"
    /\ UNCHANGED <<api_key, exit_code, trace, progvars>>

\* line 61
ImportSleep ==
    /\ pc = "import_sleep"
    /\ trace' = Append(trace, SleepEv("import", ImportPollSeconds))
    /\ pc' = "import_poll"
    /\ UNCHANGED <<api_key, exit_code, progvars>>

\* lines 62-64
ImportPoll ==
    /\ pc = "import_poll"
    /\ LET args == <<project_id, geometry_import.geometry_import_id>>
       IN  \/ \E s \in NextStatuses({"import_geometry", "get_geometry_import"}) :
                /\ geometry_import' = GeometryImportResponse(s)
                /\ trace' = Append(trace, CallOk("get_geometry_import", args,
                                                 GeometryImportResponse(s)))
                /\ pc' = "import_check"
                /\ UNCHANGED <<api_key, exit_code, project_id, storage, geometry_id,
                               bodies, body_name, simulation_id, mesh_op, sim, run>>
           \/ Crash(<<CallRaised("get_geometry_import", args)>>)

\* lines 66-72
GetGeometryMappings ==
    /\ pc = "get_geometry_mappings"
    /\ LET gid == geometry_import.geometry_id
           args == <<project_id, gid>>
       IN  \/ \E e \in EmbeddedValues :
                /\ geometry_id' = gid
                /\ bodies' = e
                /\ body_name' = BodyName(e)
                /\ trace' = Append(trace, CallOk("get_geometry_mappings", args,
                                                 [embedded |-> e]))
                /\ pc' = "create_simulation"
                /\ UNCHANGED <<api_key, exit_code, project_id, storage, geometry_import,
                               simulation_id, mesh_op, sim, run>>
           \/ /\ Crash(<<CallRaised("get_geometry_mappings", args)>>)

\* lines 75-166: of the SimulationSpec only the two fields computed at run time
CreateSimulationArgs ==
    <<project_id, geometry_id, body_name>>

CreateSimulation ==
    /\ pc = "create_simulation"
    /\ LET p == PrintEv(<<"Setting up simulation...">>)
       IN  \/ /\ simulation_id' = SimulationResponse.simulation_id
              /\ trace' = trace \o <<p, CallOk("create_simulation", CreateSimulationArgs,
                                               SimulationResponse)>>
              /\ pc' = "create_mesh_operation"
              /\ UNCHANGED <<api_key, exit_code, project_id, storage, geometry_import,
                             geometry_id, bodies, body_name, mesh_op, sim, run>>
           \/ Crash(<<p, CallRaised("create_simulation", CreateSimulationArgs)>>)

\* lines 169-180
CreateMeshOperation ==
    /\ pc = "create_mesh_operation"
    /\ LET p == PrintEv(<<"Creating mesh...">>)
           args == <<project_id, geometry_id>>
       IN  \/ /\ mesh_op' = MeshOperationResponse("READY")
              /\ trace' = trace \o <<p, CallOk("create_mesh_operation", args,
                                               MeshOperationResponse("READY"))>>
              /\ pc' = "start_mesh_operation"
              /\ UNCHANGED <<api_key, exit_code, project_id, storage, geometry_import,
                             geometry_id, bodies, body_name, simulation_id, sim, run>>
           \/ Crash(<<p, CallRaised("create_mesh_operation", args)>>)

StartMeshOperationArgsSwapped == <<project_id, simulation_id, mesh_op.mesh_operation_id>>

\* line 184
StartMeshOperationArgs == <<project_id, mesh_op.mesh_operation_id, simulation_id>>

\* lines 183-188
StartMeshOperation ==
    /\ pc = "start_mesh_operation"
    /\ \/ /\ trace' = trace \o <<CallOk("start_mesh_operation", StartMeshOperationArgs,
                                        [none |-> None]),
                                 PrintEv(<<"Meshing...">>)>>
          /\ pc' = "mesh_poll"
          /\ UNCHANGED <<api_key, exit_code, progvars>>
       \/ Crash(<<CallRaised("start_mesh_operation", StartMeshOperationArgs)>>)

\* lines 189-190
MeshPoll ==
    /\ pc = "mesh_poll"
    /\ LET args == <<project_id, mesh_op.mesh_operation_id>>
       IN  \/ \E s \in NextStatuses({"get_mesh_operation"}) :
                /\ mesh_op' = MeshOperationResponse(s)
                /\ trace' = Append(trace, CallOk("get_mesh_operation", args,
                                                 MeshOperationResponse(s)))
                /\ pc' = "mesh_check"
                /\ UNCHANGED <<api_key, exit_code, project_id, storage, geometry_import,
                               geometry_id, bodies, body_name, simulation_id, sim, run>>
           \/ Crash(<<CallRaised("get_mesh_operation", args)>>)

\* lines 191-192
MeshCheck ==
    /\ pc = "mesh_check"
    /\ pc' = IF IsTerminal(mesh_op.status) THEN "get_simulation" ELSE "mesh_sleep"
    /\ UNCHANGED <<api_key, exit_code, trace, progvars>>

\* line 193
MeshSleep ==
    /\ pc = "mesh_sleep"
    /\ trace' = Append(trace, SleepEv("mesh", MeshPollSeconds))
    /\ pc' = "mesh_poll"
    /\ UNCHANGED <<api_key, exit_code, progvars>>

\* line 196
GetSimulation ==
    /\ pc = "get_simulation"
    /\ LET args == <<project_id, simulation_id>>
       IN  \/ /\ sim' = GetSimulationResponse
              /\ trace' = Append(trace, CallOk("get_simulation", args, GetSimulationResponse))
              /\ pc' = "attach_mesh"
              /\ UNCHANGED <<api_key, exit_code, project_id, storage, geometry_import,
                             geometry_id, bodies, body_name, simulation_id, mesh_op, run>>
           \/ Crash(<<CallRaised("get_simulation", args)>>)

\* line 197
AttachMesh ==
    /\ pc = "attach_mesh"
    /\ sim' = SetMeshId(sim, mesh_op)
    /\ pc' = "update_simulation"
    /\ UNCHANGED <<api_key, exit_code, trace, project_id, storage, geometry_import,
                   geometry_id, bodies, body_name, simulation_id, mesh_op, run>>

\* line 198: the payload sent is kept in the event's res field
UpdateSimulation ==
    /\ pc = "update_simulation"
    /\ LET args == <<project_id, simulation_id>>
       IN  \/ /\ trace' = Append(trace, CallOk("update_simulation", args, sim))
              /\ pc' = "create_simulation_run"
              /\ UNCHANGED <<api_key, exit_code, progvars>>
           \/ Crash(<<CallRaised("update_simulation", args)>>)

\* lines 201-204
CreateSimulationRun ==
    /\ pc = "create_simulation_run"
    /\ LET p == PrintEv(<<"Running simulation...">>)
           args == <<project_id, simulation_id>>
       IN  \/ /\ run' = RunResponse("READY", <<0, 1>>)
              /\ trace' = trace \o <<p, CallOk("create_simulation_run", args,
                                               RunResponse("READY", <<0, 1>>))>>
              /\ pc' = "start_simulation_run"
              /\ UNCHANGED <<api_key, exit_code, project_id, storage, geometry_import,
                             geometry_id, bodies, body_name, simulation_id, mesh_op, sim>>
           \/ Crash(<<p, CallRaised("create_simulation_run", args)>>)

\* line 205
StartSimulationRun ==
    /\ pc = "start_simulation_run"
    /\ LET args == <<project_id, simulation_id, run.run_id>>
       IN  \/ /\ trace' = Append(trace, CallOk("start_simulation_run", args, [none |-> None]))
              /\ pc' = "run_poll"
              /\ UNCHANGED <<api_key, exit_code, progvars>>
           \/ Crash(<<CallRaised("start_simulation_run", args)>>)

\* lines 208-209
RunPoll ==
    /\ pc = "run_poll"
    /\ LET args == <<project_id, simulation_id, run.run_id>>
       IN  \/ \E s \in NextStatuses({"get_simulation_run"}), p \in Progresses :
                /\ run' = RunResponse(s, p)
                /\ trace' = Append(trace, CallOk("get_simulation_run", args, RunResponse(s, p)))
                /\ pc' = "run_print"
                /\ UNCHANGED <<api_key, exit_code, project_id, storage, geometry_import,
                               geometry_id, bodies, body_name, simulation_id, mesh_op, sim>>
           \/ Crash(<<CallRaised("get_simulation_run", args)>>)

\* line 210
RunPrint ==
    /\ pc = "run_print"
    /\ trace' = Append(trace, PrintEv(StatusMessage(run)))
    /\ pc' = "run_check"
    /\ UNCHANGED <<api_key, exit_code, progvars>>

\* lines 211-212
RunCheck ==
    /\ pc = "run_check"
    /\ pc' = IF IsTerminal(run.status) THEN "finish" ELSE "run_sleep"
    /\ UNCHANGED <<api_key, exit_code, trace, progvars>>

\* line 213
RunSleep ==
    /\ pc = "run_sleep"
    /\ trace' = Append(trace, SleepEv("run", RunPollSeconds))
    /\ pc' = "run_poll"
    /\ UNCHANGED <<api_key, exit_code, progvars>>

\* lines 215-216, then the interpreter exits with status 0
Finish ==
    /\ pc = "finish"
    /\ trace' = trace \o <<PrintEv(CompleteMessage), PrintEv(ResultUrlMessage(project_id))>>
    /\ pc' = "done"
    /\ exit_code' = "0"
    /\ UNCHANGED <<api_key, progvars>>

Next ==
    \/ Start
    \/ CreateProject
    \/ CreateStorage
    \/ Upload
    \/ ImportGeometry
    \/ ImportCheck
    \/ ImportSleep
    \/ ImportPoll
    \/ GetGeometryMappings
    \/ CreateSimulation
    \/ CreateMeshOperation
    \/ StartMeshOperation
    \/ MeshPoll
    \/ MeshCheck
    \/ MeshSleep
    \/ GetSimulation
    \/ AttachMesh
    \/ UpdateSimulation
    \/ CreateSimulationRun
    \/ StartSimulationRun
    \/ RunPoll
    \/ RunPrint
    \/ RunCheck
    \/ RunSleep
    \/ Finish

Spec == Init /\ [][Next]_vars

\* The interpreter runs the script's next statement whenever there is one.
LiveSpec == Init /\ [][Next]_vars /\ WF_vars(Next)

----------------------------------------------------------------------------
\* Vocabulary of the properties, read off the trace.

TerminalStatuses == {"FINISHED", "FAILED"}

ImportStatusOps == {"import_geometry", "get_geometry_import"}

MeshStatusOps == {"get_mesh_operation"}

RunStatusOps == {"get_simulation_run"}

PcSeq ==
    <<"start", "create_project", "create_storage", "upload", "import_geometry",
      "import_check", "import_sleep", "import_poll", "get_geometry_mappings",
      "create_simulation", "create_mesh_operation", "start_mesh_operation",
      "mesh_poll", "mesh_check", "mesh_sleep", "get_simulation", "attach_mesh",
      "update_simulation", "create_simulation_run", "start_simulation_run",
      "run_poll", "run_print", "run_check", "run_sleep", "finish", "done">>

PcIdx(p) == CHOOSE i \in DOMAIN PcSeq : PcSeq[i] = p

\* pc is at or past position p of the script (never so once crashed or exited).
AtOrPast(p) == ~(pc \in {"crashed", "exited"}) /\ PcIdx(pc) >= PcIdx(p)

IsCall(i, ops) == trace[i].kind = "call" /\ trace[i].op \in ops

OkCall(i, ops) == IsCall(i, ops) /\ trace[i].ok

IsRaised(i) == trace[i].kind \in {"call", "local"} /\ ~trace[i].ok

\* Index of the last returned call of ops before position k, 0 if there is none.
LastIdx(ops, k) ==
    LET S == {i \in DOMAIN trace : i < k /\ OkCall(i, ops)}
    IN  IF S = {} THEN 0 ELSE CHOOSE i \in S : \A j \in S : j <= i

HasStatus(ops) == LastIdx(ops, Len(trace) + 1) > 0

LastStatus(ops) == trace[LastIdx(ops, Len(trace) + 1)].res.status

CountCalls(ops) == Cardinality({i \in DOMAIN trace : IsCall(i, ops)})

CountSleeps(job) ==
    Cardinality({i \in DOMAIN trace : trace[i].kind = "sleep" /\ trace[i].op = job})

IsPrintOf(i, text) == trace[i].kind = "print" /\ trace[i].text = text

Abs(x) == IF x < 0 THEN -x ELSE x

Halted == pc \in {"done", "crashed", "exited"}

----------------------------------------------------------------------------
\* C1: with SIMSCALE_API_KEY missing the script prints the error message and
\* exits with code 1, and no call of any kind is ever issued.
C1_MissingKeyExitsBeforeAnyCall ==
    (api_key = None /\ pc # "start") =>
        /\ pc = "exited"
        /\ exit_code = "1"
        /\ Len(trace) = 1
        /\ IsPrintOf(1, ErrorMessage)
        /\ \A i \in DOMAIN trace : trace[i].kind \notin {"call", "local", "sleep"}

C1_Witness == api_key = None /\ pc = "exited"

\* Helper of C2: nothing is asked of a job once it has answered a terminal status.
C2_NoRequestAfterTerminal(ops) ==
    \A i \in DOMAIN trace :
        (OkCall(i, ops) /\ trace[i].res.status \in TerminalStatuses) =>
            \A j \in (i + 1)..Len(trace) : ~IsCall(j, ops)

\* C2: a poll loop has been left only if the last status observed for its job
\* is FINISHED or FAILED, it is still inside (sleeping or about to fetch again)
\* only if the last status observed is neither, and no status request of a job
\* follows a terminal response of that job.
C2_LoopExitsExactlyOnTerminal ==
    /\ AtOrPast("get_geometry_mappings") =>
           HasStatus(ImportStatusOps) /\ LastStatus(ImportStatusOps) \in TerminalStatuses
    /\ pc \in {"import_sleep", "import_poll"} =>
           HasStatus(ImportStatusOps) /\ LastStatus(ImportStatusOps) \notin TerminalStatuses
    /\ AtOrPast("get_simulation") =>
           HasStatus(MeshStatusOps) /\ LastStatus(MeshStatusOps) \in TerminalStatuses
    /\ (pc = "mesh_sleep" \/ (pc = "mesh_poll" /\ HasStatus(MeshStatusOps))) =>
           HasStatus(MeshStatusOps) /\ LastStatus(MeshStatusOps) \notin TerminalStatuses
    /\ AtOrPast("finish") =>
           HasStatus(RunStatusOps) /\ LastStatus(RunStatusOps) \in TerminalStatuses
    /\ (pc = "run_sleep" \/ (pc = "run_poll" /\ HasStatus(RunStatusOps))) =>
           HasStatus(RunStatusOps) /\ LastStatus(RunStatusOps) \notin TerminalStatuses
    /\ C2_NoRequestAfterTerminal(ImportStatusOps)
    /\ C2_NoRequestAfterTerminal(MeshStatusOps)
    /\ C2_NoRequestAfterTerminal(RunStatusOps)

C2_Witness ==
    /\ pc = "done"
    /\ CountCalls({"get_geometry_import"}) = 2
    /\ CountCalls(MeshStatusOps) = 2
    /\ CountCalls(RunStatusOps) = 3
    /\ geometry_import.status = "FAILED"

\* Helper of C3: the update at position j carries the terminal mesh response's mesh_id.
C3_UpdateCarriesMesh(j) ==
    LET m == LastIdx(MeshStatusOps, j)
    IN  /\ m > 0
        /\ trace[m].res.status \in TerminalStatuses
        /\ trace[j].res.mesh_id = trace[m].res.mesh_id

\* C3: every create_simulation_run and start_simulation_run is preceded by a
\* returned update_simulation, and every update_simulation payload carries the
\* mesh_id of the last, terminal, get_mesh_operation response before it.
C3_MeshAttachedBeforeRun ==
    /\ \A j \in DOMAIN trace : OkCall(j, {"update_simulation"}) => C3_UpdateCarriesMesh(j)
    /\ \A k \in DOMAIN trace :
           IsCall(k, {"create_simulation_run", "start_simulation_run"}) =>
               LastIdx({"update_simulation"}, k) > 0

C3_Witness ==
    /\ \E k \in DOMAIN trace : OkCall(k, {"start_simulation_run"})
    /\ sim.mesh_id = "mesh-1"
    /\ CountCalls(MeshStatusOps) = 3

\* C4: the entity named in the material of create_simulation is "region1" when
\* the mappings response held no region, and the first region's name otherwise.
C4_BodyNameDefault ==
    \A k \in DOMAIN trace :
        IsCall(k, {"create_simulation"}) =>
            LET m == LastIdx({"get_geometry_mappings"}, k)
            IN  /\ m > 0
                /\ trace[k].args[3] = IF trace[m].res.embedded = << >>
                                        THEN "region1"
                                        ELSE trace[m].res.embedded[1]

C4_Witness ==
    /\ bodies = << >>
    /\ \E k \in DOMAIN trace : OkCall(k, {"create_simulation"}) /\ trace[k].args[3] = "region1"

\* Helpers of C5: the step taken at a loop test, and how a run can end.
C5_TerminalStep ==
    /\ (pc = "import_check" /\ geometry_import.status \in TerminalStatuses) =>
           (pc' = "get_geometry_mappings" /\ UNCHANGED <<trace, exit_code>>)
    /\ (pc = "mesh_check" /\ mesh_op.status \in TerminalStatuses) =>
           (pc' = "get_simulation" /\ UNCHANGED <<trace, exit_code>>)
    /\ (pc = "run_check" /\ run.status \in TerminalStatuses) =>
           (pc' = "finish" /\ UNCHANGED <<trace, exit_code>>)

C5_Outcome ==
    /\ pc = "crashed" => (Len(trace) > 0 /\ IsRaised(Len(trace)))
    /\ pc = "done" =>
           /\ exit_code = "0"
           /\ Len(trace) >= 2
           /\ IsPrintOf(Len(trace) - 1, CompleteMessage)
           /\ IsPrintOf(Len(trace), ResultUrlMessage(project_id))

\* C5: at each loop test a FINISHED and a FAILED status alike send the script
\* to the one step that follows the loop, printing nothing and setting no exit
\* code; the script crashes only from a call that raised, and a finished
\* script has printed the completion message and the result URL last.
C5_FailedLikeFinished == [][C5_TerminalStep]_vars /\ []C5_Outcome

C5_Witness ==
    /\ pc = "done"
    /\ geometry_import.status = "FAILED"
    /\ mesh_op.status = "FAILED"
    /\ run.status = "FAILED"
    /\ \E k \in DOMAIN trace : OkCall(k, {"create_simulation"})
    /\ \E k \in DOMAIN trace : OkCall(k, {"start_simulation_run"})

\* Helpers of C6: the position of each call in the pipeline and its expected arguments.
Stage(op) ==
    CASE op = "create_project" -> 1
      [] op = "create_storage" -> 2
      [] op = "PUT" -> 3
      [] op = "import_geometry" -> 4
      [] op = "get_geometry_import" -> 5
      [] op = "get_geometry_mappings" -> 6
      [] op = "create_simulation" -> 7
      [] op = "create_mesh_operation" -> 8
      [] op = "start_mesh_operation" -> 9
      [] op = "get_mesh_operation" -> 10
      [] op = "get_simulation" -> 11
      [] op = "update_simulation" -> 12
      [] op = "create_simulation_run" -> 13
      [] op = "start_simulation_run" -> 14
      [] op = "get_simulation_run" -> 15

PolledOps == {"import_geometry", "get_geometry_import", "get_mesh_operation", "get_simulation_run"}

CallEvents ==
    LET isCall(e) == e.kind = "call" IN SelectSeq(trace, isCall)

\* May call b directly follow the returned call a.
C6_Follows(a, b) ==
    LET done == a.op \in PolledOps => a.res.status \in TerminalStatuses
        again == a.op \in PolledOps /\ a.res.status \notin TerminalStatuses
    IN  \/ done /\ Stage(b.op) = Stage(a.op) + 1 /\ a.op # "import_geometry"
        \/ done /\ a.op = "import_geometry" /\ b.op = "get_geometry_mappings"
        \/ again /\ a.op = "import_geometry" /\ b.op = "get_geometry_import"
        \/ again /\ a.op # "import_geometry" /\ b.op = a.op

C6_Order ==
    LET c == CallEvents
    IN  /\ Len(c) > 0 => c[1].op = "create_project"
        /\ \A i \in 1..(Len(c) - 1) : c[i].ok /\ C6_Follows(c[i], c[i + 1])
        /\ \A i \in DOMAIN trace :
               (trace[i].kind = "print" /\ trace[i].text[1] = ResultUrlMessage(None)[1]) =>
                   /\ i = Len(trace)
                   /\ Len(c) > 0
                   /\ c[Len(c)].op = "get_simulation_run"
                   /\ c[Len(c)].ok
                   /\ c[Len(c)].res.status \in TerminalStatuses
                   /\ LastIdx({"create_project"}, i) > 0
                   /\ trace[i].text[2] = trace[LastIdx({"create_project"}, i)].res.project_id
        /\ pc = "done" => IsPrintOf(Len(trace), ResultUrlMessage(project_id))

\* The response of the last returned call of ops before position k.
Ret(ops, k) == trace[LastIdx(ops, k)].res

C6_ArgsOf(k) ==
    LET op == trace[k].op
        a == trace[k].args
        proj == Ret({"create_project"}, k).project_id
        stor == Ret({"create_storage"}, k)
        gimp == Ret(ImportStatusOps, k)
        simu == Ret({"create_simulation"}, k).simulation_id
        mop == Ret({"create_mesh_operation", "get_mesh_operation"}, k).mesh_operation_id
        rid == Ret({"create_simulation_run", "get_simulation_run"}, k).run_id
    IN  CASE op \in {"create_project", "create_storage"} -> a = << >>
          [] op = "PUT" -> a = <<stor.url>>
          [] op = "import_geometry" -> a = <<proj, stor.storage_id>>
          [] op = "get_geometry_import" -> a = <<proj, gimp.geometry_import_id>>
          [] op = "get_geometry_mappings" -> a = <<proj, gimp.geometry_id>>
          [] op = "create_simulation" -> a[1] = proj /\ a[2] = gimp.geometry_id
          [] op = "create_mesh_operation" -> a = <<proj, gimp.geometry_id>>
          [] op = "start_mesh_operation" -> a = <<proj, mop, simu>>
          [] op = "get_mesh_operation" -> a = <<proj, mop>>
          [] op \in {"get_simulation", "update_simulation", "create_simulation_run"} ->
                 a = <<proj, simu>>
          [] op \in {"start_simulation_run", "get_simulation_run"} -> a = <<proj, simu, rid>>

\* C6: the calls occur in the script's one order, each after the one before it
\* has returned (and, for a polled job, reported a terminal status), and each
\* call's arguments are the IDs that earlier calls returned.
C6_LinearPipeline ==
    /\ C6_Order
    /\ \A k \in DOMAIN trace : trace[k].kind = "call" => C6_ArgsOf(k)

C6_Witness ==
    /\ pc = "done"
    /\ CountCalls({"get_geometry_import"}) = 1
    /\ CountCalls(MeshStatusOps) = 2
    /\ CountCalls(RunStatusOps) = 2

\* Helpers of C7: the positions of each loop and the steps that leave or repeat it.
ImportLoopPcs == {"import_check", "import_sleep", "import_poll"}

MeshLoopPcs == {"mesh_poll", "mesh_check", "mesh_sleep"}

RunLoopPcs == {"run_poll", "run_print", "run_check", "run_sleep"}

C7_LoopStep ==
    /\ (pc \in ImportLoopPcs /\ pc' \notin ImportLoopPcs) =>
           \/ pc' = "crashed"
           \/ /\ pc = "import_check" /\ pc' = "get_geometry_mappings"
              /\ geometry_import.status \in TerminalStatuses
    /\ (pc \in MeshLoopPcs /\ pc' \notin MeshLoopPcs) =>
           \/ pc' = "crashed"
           \/ /\ pc = "mesh_check" /\ pc' = "get_simulation"
              /\ mesh_op.status \in TerminalStatuses
    /\ (pc \in RunLoopPcs /\ pc' \notin RunLoopPcs) =>
           \/ pc' = "crashed"
           \/ /\ pc = "run_check" /\ pc' = "finish"
              /\ run.status \in TerminalStatuses
    /\ (pc = "import_check" /\ geometry_import.status \notin TerminalStatuses) =>
           pc' = "import_sleep"
    /\ (pc = "mesh_check" /\ mesh_op.status \notin TerminalStatuses) => pc' = "mesh_sleep"
    /\ (pc = "run_check" /\ run.status \notin TerminalStatuses) => pc' = "run_sleep"
    /\ pc = "import_sleep" => pc' = "import_poll"
    /\ pc = "mesh_sleep" => pc' = "mesh_poll"
    /\ pc = "run_sleep" => pc' = "run_poll"

C7_Stopped ==
    /\ pc = "done" => IsPrintOf(Len(trace), ResultUrlMessage(project_id))
    /\ pc = "crashed" => IsRaised(Len(trace))
    /\ pc = "exited" => api_key \in {None, ""}

\* C7: a loop is left only on an exception or from its test with a terminal
\* status, and from the test with any other status the script sleeps and then
\* fetches again; a script that has stopped has finished with the result URL
\* printed, has crashed on a call that raised, or had no API key; and when the
\* service gives each job a terminal status in the end, the script stops.
C7_NoLocalTimeout == [][C7_LoopStep]_vars /\ []C7_Stopped /\ <>Halted

C7_Witness ==
    /\ pc = "done"
    /\ CountSleeps("import") = MaxPolls
    /\ CountSleeps("mesh") = MaxPolls
    /\ CountSleeps("run") = MaxPolls

\* C8: a call that raised is the last event of the run: the script has crashed
\* with a non-zero exit code, issued nothing after it, and printed neither the
\* completion message nor the result URL.
C8_NoRetryAfterException ==
    \A i \in DOMAIN trace :
        IsRaised(i) =>
            /\ i = Len(trace)
            /\ pc = "crashed"
            /\ exit_code = "1"
            /\ \A j \in DOMAIN trace :
                   trace[j].kind = "print" =>
                       /\ trace[j].text # CompleteMessage
                       /\ trace[j].text[1] # ResultUrlMessage(None)[1]

C8_Witness ==
    /\ pc = "crashed"
    /\ IsCall(Len(trace), {"get_mesh_operation"})
    /\ IsRaised(Len(trace))
    /\ CountCalls(MeshStatusOps) = 3

\* Helpers of C9: the run responses and status messages of the trace, in order.
RunResponses ==
    LET isRun(e) == e.kind = "call" /\ e.op = "get_simulation_run" /\ e.ok
    IN  SelectSeq(trace, isRun)

IsStatusPrint(e) == e.kind = "print" /\ e.text[1] = "Status: "

StatusPrints == SelectSeq(trace, IsStatusPrint)

C9_Formats(text, r) ==
    /\ Len(text) = 5
    /\ text[1] = "Status: "
    /\ text[2] = r.status
    /\ text[3] = " - Progress: "
    /\ text[5] = "%"
    /\ \E n \in 0..100 :
           /\ text[4] = ToString(n)
           /\ 2 * Abs(n * r.progress[2] - 100 * r.progress[1]) <= r.progress[2]

\* C9: the i-th run-status message carries the status of the i-th
\* get_simulation_run response and the integer nearest to 100 times its
\* progress, in the form Status: <STATUS> - Progress: <n>%; it is the event
\* right after that response, so before the loop's test and any sleep.
C9_RunStatusMessage ==
    /\ Len(StatusPrints) = IF pc = "run_print" THEN Len(RunResponses) - 1
                                               ELSE Len(RunResponses)
    /\ \A i \in DOMAIN StatusPrints : C9_Formats(StatusPrints[i].text, RunResponses[i].res)
    /\ \A k \in DOMAIN trace :
           OkCall(k, RunStatusOps) =>
               IF k = Len(trace) THEN pc = "run_print" ELSE IsStatusPrint(trace[k + 1])

C9_Witness ==
    /\ pc = "done"
    /\ Len(StatusPrints) = 3
    /\ StatusPrints[1].text = <<"Status: ", "RUNNING", " - Progress: ", "12", "%">>
    /\ StatusPrints[2].text = <<"Status: ", "RUNNING", " - Progress: ", "38", "%">>
    /\ StatusPrints[3].text = <<"Status: ", "FAILED", " - Progress: ", "100", "%">>

\* Helpers of C10: the status observations and sleeps of one job, in order.
JobEvents(job, ops) ==
    LET isJob(e) == \/ e.kind = "call" /\ e.op \in ops
                    \/ e.kind = "sleep" /\ e.op = job
    IN  SelectSeq(trace, isJob)

C10_Alternates(js) ==
    \A i \in DOMAIN js :
        IF i % 2 = 1
          THEN js[i].kind = "call"
          ELSE /\ js[i].kind = "sleep"
               /\ js[i - 1].ok
               /\ js[i - 1].res.status \notin TerminalStatuses

\* C10: among the status observations and sleeps of one job, sleeps and
\* observations alternate starting with an observation, and each sleep follows
\* a returned non-terminal one; a terminal import_geometry response is followed
\* by no get_geometry_import and no sleep; the mesh and run loops are left only
\* after at least one fetch.
C10_SleepBetweenFetches ==
    /\ C10_Alternates(JobEvents("import", ImportStatusOps))
    /\ C10_Alternates(JobEvents("mesh", MeshStatusOps))
    /\ C10_Alternates(JobEvents("run", RunStatusOps))
    /\ \A i \in DOMAIN trace :
           (OkCall(i, {"import_geometry"}) /\ trace[i].res.status \in TerminalStatuses) =>
               CountCalls({"get_geometry_import"}) = 0 /\ CountSleeps("import") = 0
    /\ AtOrPast("get_simulation") => CountCalls(MeshStatusOps) >= 1
    /\ AtOrPast("finish") => CountCalls(RunStatusOps) >= 1

C10_Witness ==
    /\ pc = "done"
    /\ CountCalls({"get_geometry_import"}) = 0
    /\ CountSleeps("import") = 0
    /\ CountCalls(MeshStatusOps) = 3
    /\ CountSleeps("mesh") = 2
    /\ CountCalls(RunStatusOps) = 1
    /\ CountSleeps("run") = 0

====
